---- MODULE Spec2Model ----
(***************************************************************************)
(* UART-SPI retranslator (components/uart-spi, uart-spi.c).                *)
(*                                                                         *)
(* Two FreeRTOS tasks (uart_task, spi_task), two stream buffers            *)
(* (uart_rx_stream: UART->SPI, spi_rx_stream: SPI->UART), two binary       *)
(* semaphores released from the HAL callbacks, and the HAL peripherals as  *)
(* the environment.  Every task step between two blocking or HAL calls is  *)
(* one action; every HAL callback is one (interrupt context) action.       *)
(*                                                                         *)
(* The sizes are scaled down: CHUNK_BUFF_SIZE is 128 and the stream        *)
(* buffers hold 1024 bytes in the source.                                  *)
(***************************************************************************)
EXTENDS Integers, Sequences, FiniteSets, TLC

\* ------------------------------------------------------------------ bounds

\* #define CHUNK_BUFF_SIZE 128, scaled down.
CHUNK_BUFF_SIZE == 2

\* xStreamBufferCreate(1024, 1), scaled down (kept larger than a chunk, so that
\* a receive can leave bytes behind).
STREAM_SIZE == 3

\* Bytes uart_rx_stream accepts in one behaviour: as many as fill it once.
MaxUartRx == STREAM_SIZE

\* SPI transactions the HAL accepts in one behaviour; it rejects the later ones.
MaxSpiXfer == 2

\* Byte values the SPI slave sends: 0 (filler / terminator) and a payload
\* value.
Byte == {0, 1}

\* The value of the byte the UART receives after k bytes were accepted.  No
\* code looks at the value of a byte of the UART-to-SPI direction, so every
\* byte gets a value of its own, which shows a loss, a repetition or a swap.
UartByte(k) == k + 1

\* ------------------------------------------------------------------ state

VARIABLES
    uart_rx_stream,     \* UART-to-SPI stream buffer (FIFO of bytes)
    spi_rx_stream,      \* SPI-to-UART stream buffer (FIFO of bytes)
    uart_tx_sema,       \* count of the UART transmit semaphore (0..1)
    spi_tx_rx_sema,     \* count of the SPI transaction semaphore (0..1)
    pcU,                \* uart_task: position
    chunk_buff,         \* uart_task: the first `length` bytes of chunk_buff
    pcS,                \* spi_task: position
    chunk_buff_tx,      \* spi_task: the first `length` bytes of chunk_buff_tx
    chunk_buff_rx,      \* spi_task: chunk_buff_rx, all CHUNK_BUFF_SIZE bytes
    length,             \* spi_task: length of the current transaction
    q,                  \* spi_task: index of the scan
    message_receiving,  \* spi_task: the framing flag
    spiStatus,          \* spi_task: what spi_wait_ready returned in this turn
    uartRxArmed,        \* HAL: a one byte reception is armed
    uartTxBusy,         \* HAL: a DMA transmit is in flight
    spiBusy,            \* HAL: a DMA transaction is in flight
    spiXferSize,        \* HAL: length of the transaction last started
    spiXferCount,       \* HAL: bytes of it the DMA has stored so far
    consumed,           \* history: what spi_task's last stream receive took
    uartAccepted,       \* history: bytes stored into uart_rx_stream
    spiHanded,          \* history: stream bytes spi_task passed to spi_tx_rx
    spiAccepted,        \* history: bytes stored into spi_rx_stream
    uartHanded,         \* history: bytes uart_task passed to uart_tx_async
    spiXfers,           \* history: how many SPI transactions the HAL accepted
    spiRxData,          \* history: the bytes the SPI DMA stored, kept as long
                        \*          as cleanScans holds
    uartDropped,        \* history: a send to uart_rx_stream stored nothing
    spiDropped,         \* history: a send to spi_rx_stream stored nothing
    cleanScans,         \* history: every scan so far read a completed transaction
    ndebug,             \* build: NDEBUG is defined, assert() expands to nothing
    startPc,            \* uart_spi_start: index of the next step of StartSteps
    startState,         \* uart_spi_start: "running", "asserted" or "returned"
    startResult,        \* uart_spi_start: << the value returned >>, << >> before
    created,            \* uart_spi_start: the steps that succeeded
    failed,             \* uart_spi_start: the steps that failed
    appResult           \* app_init: << the value returned >>, << >> before

vars == << uart_rx_stream, spi_rx_stream, uart_tx_sema, spi_tx_rx_sema,
           pcU, chunk_buff, pcS, chunk_buff_tx,
           chunk_buff_rx, length, q, message_receiving, spiStatus,
           uartRxArmed, uartTxBusy, spiBusy, spiXferSize, spiXferCount,
           consumed, uartAccepted, spiHanded, spiAccepted, uartHanded,
           spiXfers, spiRxData, uartDropped, spiDropped, cleanScans,
           ndebug, startPc, startState, startResult, created, failed,
           appResult >>

startVars    == << ndebug, startPc, startState, startResult, created, failed,
                   appResult >>
uartTaskVars == << pcU, chunk_buff >>
spiTaskVars  == << pcS, chunk_buff_tx, chunk_buff_rx, length, q,
                   message_receiving, spiStatus >>
uartHalVars  == << uartRxArmed, uartTxBusy >>
spiHalVars   == << spiBusy, spiXferSize, spiXferCount >>
uartHist     == << uartAccepted, uartHanded, uartDropped >>
spiHist      == << consumed, spiHanded, spiAccepted, spiXfers, spiRxData,
                   spiDropped, cleanScans >>

\* ---------------------------------------------------------------- helpers

Min(a, b) == IF a < b THEN a ELSE b

Zeros(n) == [i \in 1..n |-> 0]

IsPrefix(s, t) == Len(s) <= Len(t) /\ SubSeq(t, 1, Len(s)) = s

\* A stream buffer that overwrites its oldest byte when it is full.
StreamSendOverwrite(stream, b) ==
    IF Len(stream) < STREAM_SIZE THEN Append(stream, b)
                                 ELSE Append(Tail(stream), b)

\* xStreamBufferSend(stream, &byte, 1, 0): stores the byte when there is room,
\* stores nothing (and returns 0 at once) when the buffer is full.
StreamSend(stream, b) ==
    IF Len(stream) < STREAM_SIZE THEN Append(stream, b) ELSE stream

StreamSent(stream, b) == Len(stream) < STREAM_SIZE

\* A stream buffer that hands out the bytes it takes newest first.
StreamTakenReversed(stream) ==
    [i \in 1..Min(Len(stream), CHUNK_BUFF_SIZE) |->
        stream[Min(Len(stream), CHUNK_BUFF_SIZE) + 1 - i]]

\* xStreamBufferReceive(stream, buff, CHUNK_BUFF_SIZE, ...): the bytes taken,
\* oldest first, and what stays in the buffer.
StreamTaken(stream) == SubSeq(stream, 1, Min(Len(stream), CHUNK_BUFF_SIZE))

StreamLeft(stream) ==
    SubSeq(stream, Min(Len(stream), CHUNK_BUFF_SIZE) + 1, Len(stream))

\* A counting semaphore without a maximum: every release adds a token.
SemaReleaseCounting(count) == count + 1

\* osSemaphoreRelease on a semaphore created by osSemaphoreNew(1, 1, NULL):
\* the count never passes the maximum of 1.
SemaRelease(count) == IF count < 1 THEN count + 1 ELSE count

\* osSemaphoreAcquire(sema, timeout): osOK when a token is there.
SemaAvailable(count) == count > 0

\* ------------------------------------------------------------------- init

\* The steps of uart_spi_start, in the order of the code: three UART callback
\* registrations, the UART-to-SPI stream, the UART semaphore, two SPI callback
\* registrations, the SPI-to-UART stream, the SPI semaphore, the two tasks.
StartSteps ==
    << "uart_tx_complete_callback", "uart_rx_complete_callback",
       "uart_error_callback", "uart_rx_stream", "uart_tx_sema",
       "spi_tx_rx_complete_callback", "spi_error_callback", "spi_rx_stream",
       "spi_tx_rx_sema", "uart_task", "spi_task" >>

StepSet == {StartSteps[i] : i \in 1..Len(StartSteps)}

\* The tasks and peripherals before anything has run: empty streams, released
\* semaphores, zeroed static buffers, idle peripherals, empty histories.
Runtime0 ==
    /\ uart_rx_stream = << >>
    /\ spi_rx_stream = << >>
    /\ uart_tx_sema = 1
    /\ spi_tx_rx_sema = 1
    /\ pcU = "rx_start"
    /\ chunk_buff = << >>
    /\ pcS = "receive"
    /\ chunk_buff_tx = << >>
    /\ chunk_buff_rx = Zeros(CHUNK_BUFF_SIZE)
    /\ length = 0
    /\ q = 0
    /\ message_receiving = FALSE
    /\ spiStatus = 0
    /\ uartRxArmed = FALSE
    /\ uartTxBusy = FALSE
    /\ spiBusy = FALSE
    /\ spiXferSize = 0
    /\ spiXferCount = 0
    /\ consumed = << >>
    /\ uartAccepted = << >>
    /\ spiHanded = << >>
    /\ spiAccepted = << >>
    /\ uartHanded = << >>
    /\ spiXfers = 0
    /\ spiRxData = << >>
    /\ uartDropped = FALSE
    /\ spiDropped = FALSE
    /\ cleanScans = TRUE

\* The state uart_spi_start leaves behind when nothing failed: both streams
\* empty, both semaphores released (osSemaphoreNew(1, 1, NULL)), both tasks
\* at their entry.
Init ==
    /\ Runtime0
    /\ ndebug = FALSE
    /\ startPc = Len(StartSteps) + 1
    /\ startState = "returned"
    /\ startResult = << 0 >>
    /\ created = StepSet
    /\ failed = {}
    /\ appResult = << 0 >>

\* ------------------------------------------------------------------- HAL

\* What a helper that starts a HAL operation can return: HAL_BUSY (-1) while
\* the peripheral is busy with an earlier operation, else HAL_OK (0) or an
\* immediate failure (-1).
HalStart(busy) == IF busy THEN {-1} ELSE {0, -1}

\* -------------------------------------------------------------- uart_task

\* if (uart_tx_async(chunk_buff, length) != 0) continue;
UartAfterTxAsync(status) == IF status # 0 THEN "receive" ELSE "wait"

\* A wait without a timeout (portMAX_DELAY): it goes on waiting.
UartAfterWaitForever(status) == IF status # 0 THEN "wait" ELSE "receive"

\* if (uart_wait_tx_ready(100) != 0) uart_tx_abort();
UartAfterWait(status) == IF status # 0 THEN "abort" ELSE "receive"

\* uart_rx_start(), once, before the loop; its result is not looked at.
UartRxStart ==
    /\ pcU = "rx_start"
    /\ \E status \in HalStart(uartRxArmed) :
          uartRxArmed' = (uartRxArmed \/ status = 0)
    /\ pcU' = "receive"
    /\ UNCHANGED << startVars, uart_rx_stream, spi_rx_stream, uart_tx_sema, spi_tx_rx_sema,
                    chunk_buff, uartTxBusy,
                    spiTaskVars, spiHalVars, uartHist, spiHist >>

\* One turn of the loop up to the start of the transmit:
\* xStreamBufferReceive(spi_rx_stream, chunk_buff, CHUNK_BUFF_SIZE,
\* portMAX_DELAY), which blocks until the stream holds a byte, and then
\* uart_tx_async(chunk_buff, length), that is HAL_UART_Transmit_DMA.
UartReceive ==
    /\ pcU = "receive"
    /\ Len(spi_rx_stream) > 0
    /\ chunk_buff' = StreamTaken(spi_rx_stream)
    /\ spi_rx_stream' = StreamLeft(spi_rx_stream)
    /\ uartHanded' = uartHanded \o chunk_buff'
    /\ \E status \in HalStart(uartTxBusy) :
          /\ uartTxBusy' = (uartTxBusy \/ status = 0)
          /\ pcU' = UartAfterTxAsync(status)
    /\ UNCHANGED << startVars, uart_rx_stream, uart_tx_sema, spi_tx_rx_sema,
                    uartRxArmed, spiTaskVars, spiHalVars, uartAccepted,
                    uartDropped, spiHist >>

\* uart_wait_tx_ready(100): osSemaphoreAcquire, which takes the token when one
\* is there and otherwise ends by timeout.
UartWaitTxReady ==
    /\ pcU = "wait"
    /\ IF SemaAvailable(uart_tx_sema)
         THEN /\ uart_tx_sema' = uart_tx_sema - 1
              /\ pcU' = UartAfterWait(0)
         ELSE /\ uart_tx_sema' = uart_tx_sema
              /\ pcU' = UartAfterWait(-1)
    /\ UNCHANGED << startVars, uart_rx_stream, spi_rx_stream, spi_tx_rx_sema, chunk_buff,
                    uartHalVars, spiTaskVars, spiHalVars, uartHist, spiHist >>

\* uart_tx_abort(): HAL_UART_AbortTransmit_IT ends the transmit in flight.
UartTxAbort ==
    /\ pcU = "abort"
    /\ uartTxBusy' = FALSE
    /\ pcU' = "receive"
    /\ UNCHANGED << startVars, uart_rx_stream, spi_rx_stream, uart_tx_sema, spi_tx_rx_sema,
                    chunk_buff, uartRxArmed,
                    spiTaskVars, spiHalVars, uartHist, spiHist >>

\* --------------------------------------------------------- UART callbacks

\* uart_tx_complete_callback: the DMA transmit in flight has ended.
UartTxCompleteCallback ==
    /\ uartTxBusy
    /\ uartTxBusy' = FALSE
    /\ uart_tx_sema' = SemaRelease(uart_tx_sema)
    /\ UNCHANGED << startVars, uart_rx_stream, spi_rx_stream, spi_tx_rx_sema,
                    uartRxArmed, uartTaskVars, spiTaskVars, spiHalVars,
                    uartHist, spiHist >>

\* uart_rx_complete_callback: the armed reception has stored a byte b in
\* uart_rx_byte (which nothing else reads); the callback sends it to
\* uart_rx_stream and calls uart_rx_start(), whose result is not looked at.
\* Bytes arrive as long as the stream has accepted fewer than MaxUartRx, and
\* whenever the stream is full (they are dropped).
UartRxCompleteCallback ==
    /\ uartRxArmed
    /\ Len(uartAccepted) < MaxUartRx \/ Len(uart_rx_stream) = STREAM_SIZE
    /\ LET b == UartByte(Len(uartAccepted))
       IN /\ uart_rx_stream' = StreamSend(uart_rx_stream, b)
          /\ uartAccepted' = IF StreamSent(uart_rx_stream, b)
                               THEN Append(uartAccepted, b) ELSE uartAccepted
          /\ uartDropped' = (uartDropped \/ ~StreamSent(uart_rx_stream, b))
    /\ \E status \in HalStart(FALSE) : uartRxArmed' = (status = 0)
    /\ UNCHANGED << startVars, spi_rx_stream, uart_tx_sema, spi_tx_rx_sema, uartTxBusy,
                    uartTaskVars, spiTaskVars, spiHalVars, uartHanded,
                    spiHist >>

\* uart_error_callback: a UART error, which may or may not have ended the
\* transmit in flight.
UartErrorCallback ==
    /\ uart_tx_sema' = SemaRelease(uart_tx_sema)
    /\ \E endsTx \in BOOLEAN : uartTxBusy' = (uartTxBusy /\ ~endsTx)
    /\ UNCHANGED << startVars, uart_rx_stream, spi_rx_stream, spi_tx_rx_sema,
                    uartRxArmed, uartTaskVars, spiTaskVars, spiHalVars,
                    uartHist, spiHist >>

\* --------------------------------------------------------------- spi_task

\* A turn that forgets the padding of an empty chunk.
SpiLengthNoPadding(taken) == Len(taken)

\* if (length == 0) { length = CHUNK_BUFF_SIZE; memset(chunk_buff_tx, 0, length); }
SpiLength(taken) == IF Len(taken) = 0 THEN CHUNK_BUFF_SIZE ELSE Len(taken)

SpiTxBuffer(taken) == IF Len(taken) = 0 THEN Zeros(CHUNK_BUFF_SIZE) ELSE taken

\* A turn without the `continue`: it waits and scans after a rejected start.
SpiAfterTxRxNoContinue(status) == "wait"

\* if (spi_tx_rx(chunk_buff_tx, chunk_buff_rx, length) != 0) continue;
SpiAfterTxRx(status) == IF status # 0 THEN "receive" ELSE "wait"

\* A turn that aborts after every wait, whatever it returned.
SpiAfterWaitAlwaysAbort(status) == "abort"

\* A wait without a timeout (osWaitForever): it goes on waiting.
SpiAfterWaitForever(status) == IF status # 0 THEN "wait" ELSE "scan"

\* if (spi_wait_ready(100) != 0) spi_abort();  and then the scan, either way.
SpiAfterWait(status) == IF status # 0 THEN "abort" ELSE "scan"

SpiAfterAbort == "scan"

\* A framing flag declared inside the loop: every turn starts with false.
FlagResetEachTurn(receiving) == FALSE

\* bool message_receiving = false; is declared before the loop: a new turn
\* of the loop finds the value the last scan left.
FlagAtNextTurn(receiving) == receiving

\* A scan that never sends the terminator.
ScanForwardsNoTerminator(b, receiving) == b # 0

\* The scan of one byte: is it sent to spi_rx_stream?
ScanForwards(b, receiving) == IF b # 0 THEN TRUE ELSE receiving

\* A scan that never ends a message: the flag stays once it is set.
ScanFlagSticky(b, receiving) == b # 0 \/ receiving

\* The scan of one byte: message_receiving afterwards.
ScanFlag(b, receiving) ==
    IF b # 0 THEN (IF ~receiving THEN TRUE ELSE receiving)
             ELSE (IF receiving THEN FALSE ELSE receiving)

\* for (int q = 0; q < length; q++): where the loop is after the byte at q.
ScanNext(i, len) == IF i + 1 < len THEN "scan" ELSE "receive"

\* One turn of the loop up to the start of the transaction:
\* xStreamBufferReceive(uart_rx_stream, chunk_buff_tx, CHUNK_BUFF_SIZE, 0), the
\* padding of an empty chunk, and then spi_tx_rx(chunk_buff_tx, chunk_buff_rx,
\* length), that is HAL_SPI_TransmitReceive_DMA.
SpiReceive ==
    /\ pcS = "receive"
    /\ consumed' = StreamTaken(uart_rx_stream)
    /\ uart_rx_stream' = StreamLeft(uart_rx_stream)
    /\ length' = SpiLength(consumed')
    /\ chunk_buff_tx' = SpiTxBuffer(consumed')
    /\ message_receiving' = FlagAtNextTurn(message_receiving)
    /\ spiHanded' = spiHanded \o consumed'
    /\ \E status \in HalStart(spiBusy) :
          /\ status = 0 => spiXfers < MaxSpiXfer
          /\ spiXfers' = IF status = 0 THEN spiXfers + 1 ELSE spiXfers
          /\ spiBusy' = (spiBusy \/ status = 0)
          /\ spiXferSize' = IF status = 0 THEN length' ELSE spiXferSize
          /\ spiXferCount' = IF status = 0 THEN 0 ELSE spiXferCount
          /\ pcS' = SpiAfterTxRx(status)
    /\ UNCHANGED << startVars, spi_rx_stream, uart_tx_sema, spi_tx_rx_sema,
                    chunk_buff_rx, q, spiStatus, uartTaskVars, uartHalVars,
                    uartHist, spiAccepted, spiRxData, spiDropped, cleanScans >>

\* spi_wait_ready(100): osSemaphoreAcquire, as in uart_wait_tx_ready.  When it
\* returns 0 the scan starts at q = 0.
SpiWaitReady ==
    /\ pcS = "wait"
    /\ IF SemaAvailable(spi_tx_rx_sema)
         THEN /\ spi_tx_rx_sema' = spi_tx_rx_sema - 1
              /\ spiStatus' = 0
         ELSE /\ spi_tx_rx_sema' = spi_tx_rx_sema
              /\ spiStatus' = -1
    /\ pcS' = SpiAfterWait(spiStatus')
    /\ q' = 0
    /\ cleanScans' = (cleanScans /\ spiStatus' = 0 /\ ~spiBusy
                                 /\ spiXferCount = spiXferSize)
    /\ spiRxData' = IF cleanScans' THEN spiRxData ELSE << >>
    /\ UNCHANGED << startVars, uart_rx_stream, spi_rx_stream, uart_tx_sema, chunk_buff_tx,
                    chunk_buff_rx, length, message_receiving, uartTaskVars,
                    uartHalVars, spiHalVars, uartHist, consumed, spiHanded,
                    spiAccepted, spiXfers, spiDropped >>

\* spi_abort(): HAL_SPI_Abort_IT ends the transaction in flight.
SpiAbort ==
    /\ pcS = "abort"
    /\ spiBusy' = FALSE
    /\ pcS' = SpiAfterAbort
    /\ UNCHANGED << startVars, uart_rx_stream, spi_rx_stream, uart_tx_sema, spi_tx_rx_sema,
                    chunk_buff_tx, chunk_buff_rx, length, q, message_receiving,
                    spiStatus, spiXferSize, spiXferCount, uartTaskVars,
                    uartHalVars, uartHist, spiHist >>

\* One turn of the scan loop: the byte at q of chunk_buff_rx.
SpiScan ==
    /\ pcS = "scan"
    /\ LET b == chunk_buff_rx[q + 1]
           forwards == ScanForwards(b, message_receiving)
           sent == forwards /\ StreamSent(spi_rx_stream, b)
       IN /\ message_receiving' = ScanFlag(b, message_receiving)
          /\ spi_rx_stream' = IF forwards THEN StreamSend(spi_rx_stream, b)
                                           ELSE spi_rx_stream
          /\ spiAccepted' = IF sent THEN Append(spiAccepted, b) ELSE spiAccepted
          /\ spiDropped' = (spiDropped \/ (forwards /\ ~sent))
    /\ pcS' = ScanNext(q, length)
    /\ q' = IF pcS' = "scan" THEN q + 1 ELSE 0
    /\ spiStatus' = IF pcS' = "scan" THEN spiStatus ELSE 0
    /\ UNCHANGED << startVars, uart_rx_stream, uart_tx_sema, spi_tx_rx_sema, chunk_buff_tx,
                    chunk_buff_rx, length, uartTaskVars, uartHalVars,
                    spiHalVars, uartHist, consumed, spiHanded, spiXfers,
                    spiRxData, cleanScans >>

\* ---------------------------------------------------------- SPI peripheral

\* The DMA of the transaction in flight stores the next received byte.
SpiDmaStore ==
    /\ spiBusy
    /\ spiXferCount < spiXferSize
    /\ \E b \in Byte :
          /\ chunk_buff_rx' = [chunk_buff_rx EXCEPT ![spiXferCount + 1] = b]
          /\ spiRxData' = IF cleanScans THEN Append(spiRxData, b) ELSE << >>
    /\ spiXferCount' = spiXferCount + 1
    /\ UNCHANGED << startVars, uart_rx_stream, spi_rx_stream, uart_tx_sema, spi_tx_rx_sema,
                    pcS, chunk_buff_tx, length, q, message_receiving, spiStatus,
                    spiBusy, spiXferSize, uartTaskVars, uartHalVars, uartHist,
                    consumed, spiHanded, spiAccepted, spiXfers, spiDropped,
                    cleanScans >>

\* spi_tx_rx_complete_callback: every byte of the transaction is stored.
SpiTxRxCompleteCallback ==
    /\ spiBusy
    /\ spiXferCount = spiXferSize
    /\ spiBusy' = FALSE
    /\ spi_tx_rx_sema' = SemaRelease(spi_tx_rx_sema)
    /\ UNCHANGED << startVars, uart_rx_stream, spi_rx_stream, uart_tx_sema, spiXferSize,
                    spiXferCount, uartTaskVars, spiTaskVars, uartHalVars,
                    uartHist, spiHist >>

\* An error callback that releases the semaphore of the other peripheral.
SpiErrorCallbackOtherSema ==
    /\ spiBusy
    /\ spiBusy' = FALSE
    /\ uart_tx_sema' = SemaRelease(uart_tx_sema)
    /\ UNCHANGED << startVars, uart_rx_stream, spi_rx_stream, spi_tx_rx_sema,
                    spiXferSize, spiXferCount, uartTaskVars, spiTaskVars,
                    uartHalVars, uartHist, spiHist >>

\* spi_error_callback: the transaction in flight ended with an error.
SpiErrorCallback ==
    /\ spiBusy
    /\ spiBusy' = FALSE
    /\ spi_tx_rx_sema' = SemaRelease(spi_tx_rx_sema)
    /\ UNCHANGED << startVars, uart_rx_stream, spi_rx_stream, uart_tx_sema, spiXferSize,
                    spiXferCount, uartTaskVars, spiTaskVars, uartHalVars,
                    uartHist, spiHist >>

\* --------------------------------------------------------- uart_spi_start

runtimeVars == << uart_rx_stream, spi_rx_stream, uart_tx_sema, spi_tx_rx_sema,
                  uartTaskVars, spiTaskVars, uartHalVars, spiHalVars,
                  uartHist, spiHist >>

\* What follows a step of uart_spi_start that failed: assert(...) ends the
\* program, unless NDEBUG makes it expand to nothing and the function goes on.
AfterFailedStep(nd) == IF nd THEN "running" ELSE "asserted"

\* The value uart_spi_start returns: its only return statement is `return 0`.
StartReturnValue(failures) == 0

\* Before uart_spi_start is called; the build is with or without NDEBUG.
InitStart ==
    /\ Runtime0
    /\ ndebug \in BOOLEAN
    /\ startPc = 1
    /\ startState = "running"
    /\ startResult = << >>
    /\ created = {}
    /\ failed = {}
    /\ appResult = << >>

\* One step of uart_spi_start (a registration, an allocation or a task
\* creation), which the HAL or the RTOS lets succeed or fail, and the assert
\* that follows it.
StartStep ==
    /\ startState = "running"
    /\ startPc <= Len(StartSteps)
    /\ \E ok \in BOOLEAN :
          IF ok
            THEN /\ created' = created \cup {StartSteps[startPc]}
                 /\ failed' = failed
                 /\ startState' = "running"
            ELSE /\ created' = created
                 /\ failed' = failed \cup {StartSteps[startPc]}
                 /\ startState' = AfterFailedStep(ndebug)
    /\ startPc' = startPc + 1
    /\ UNCHANGED << runtimeVars, ndebug, startResult, appResult >>

\* return 0;
StartReturn ==
    /\ startState = "running"
    /\ startPc = Len(StartSteps) + 1
    /\ startState' = "returned"
    /\ startResult' = << StartReturnValue(failed) >>
    /\ UNCHANGED << runtimeVars, ndebug, startPc, created, failed, appResult >>

\* app_init: result = uart_spi_start(&uart_spi_params); return result;
AppInit ==
    /\ startState = "returned"
    /\ appResult = << >>
    /\ appResult' = startResult
    /\ UNCHANGED << runtimeVars, ndebug, startPc, startState, startResult,
                    created, failed >>

NextStart == StartStep \/ StartReturn \/ AppInit

SpecStart == InitStart /\ [][NextStart]_vars

\* ------------------------------------------------------------------ spec

Next ==
    \/ UartRxStart
    \/ UartReceive
    \/ UartWaitTxReady
    \/ UartTxAbort
    \/ UartTxCompleteCallback
    \/ UartRxCompleteCallback
    \/ UartErrorCallback
    \/ SpiReceive
    \/ SpiWaitReady
    \/ SpiAbort
    \/ SpiScan
    \/ SpiDmaStore
    \/ SpiTxRxCompleteCallback
    \/ SpiErrorCallback

Spec == Init /\ [][Next]_vars

\* The program later in a run: two transactions have completed and delivered
\* 1, 1 and 0, 0; spi_task has scanned them and is back at the top of its
\* loop; uart_task has not run yet, so spi_rx_stream is full with the message
\* 1, 1, 0.  The HAL accepts MaxSpiXfer further transactions, counted from
\* here.
InitLate ==
    /\ uart_rx_stream = << >>
    /\ spi_rx_stream = << 1, 1, 0 >>
    /\ uart_tx_sema = 1
    /\ spi_tx_rx_sema = 0
    /\ pcU = "rx_start"
    /\ chunk_buff = << >>
    /\ pcS = "receive"
    /\ chunk_buff_tx = Zeros(CHUNK_BUFF_SIZE)
    /\ chunk_buff_rx = Zeros(CHUNK_BUFF_SIZE)
    /\ length = CHUNK_BUFF_SIZE
    /\ q = 0
    /\ message_receiving = FALSE
    /\ spiStatus = 0
    /\ uartRxArmed = FALSE
    /\ uartTxBusy = FALSE
    /\ spiBusy = FALSE
    /\ spiXferSize = CHUNK_BUFF_SIZE
    /\ spiXferCount = CHUNK_BUFF_SIZE
    /\ consumed = << >>
    /\ uartAccepted = << >>
    /\ spiHanded = << >>
    /\ spiAccepted = << 1, 1, 0 >>
    /\ uartHanded = << >>
    /\ spiXfers = 0
    /\ spiRxData = << 1, 1, 0, 0 >>
    /\ uartDropped = FALSE
    /\ spiDropped = FALSE
    /\ cleanScans = TRUE
    /\ ndebug = FALSE
    /\ startPc = Len(StartSteps) + 1
    /\ startState = "returned"
    /\ startResult = << 0 >>
    /\ created = StepSet
    /\ failed = {}
    /\ appResult = << 0 >>

SpecLate == InitLate /\ [][Next]_vars

\* The steps of each task.
UartTask == UartRxStart \/ UartReceive \/ UartWaitTxReady \/ UartTxAbort

SpiTask == SpiReceive \/ SpiWaitReady \/ SpiAbort \/ SpiScan

\* The scheduler lets a task that can run take its next step (both tasks have
\* the same priority); nothing is assumed of the peripherals, which may never
\* complete an operation.
SpecLive == Init /\ [][Next]_vars /\ WF_vars(UartTask) /\ WF_vars(SpiTask)

\* ----------------------------------------------------------------- claims

\* The receive stream with every zero removed except a zero that immediately
\* follows a non-zero byte.
Framed(s) ==
    LET F[i \in 0..Len(s)] ==
            IF i = 0 THEN << >>
            ELSE IF s[i] # 0 \/ (i > 1 /\ s[i - 1] # 0)
                   THEN Append(F[i - 1], s[i])
                   ELSE F[i - 1]
    IN F[Len(s)]

\* The received bytes the scan has gone over: all of them between two scans,
\* all but the rest of the buffer during a scan.
ScannedData ==
    IF pcS = "scan" THEN SubSeq(spiRxData, 1, Len(spiRxData) - (length - q))
                    ELSE spiRxData

RunLength(s) ==
    Cardinality({i \in 1..Len(s) : \A j \in 1..i : s[j] # 0})

\* C2: message spanning a chunk boundary.  message_receiving changes in the
\* scan only, and a run of non-zero bytes longer than a chunk, received over
\* completed transactions, is stored into spi_rx_stream byte for byte,
\* followed by its terminator once that is received, with nothing in between.
C2_Spanning ==
    (cleanScans /\ ~spiDropped /\ pcS = "receive"
        /\ RunLength(spiRxData) > CHUNK_BUFF_SIZE)
        => LET n == Min(RunLength(spiRxData) + 1, Len(spiRxData))
           IN /\ Len(spiAccepted) >= n
              /\ SubSeq(spiAccepted, 1, n) = SubSeq(spiRxData, 1, n)

C2_FlagPersists ==
    (message_receiving' # message_receiving) => SpiScan

C3_OrderPreserved ==
    /\ IsPrefix(uartHanded, spiAccepted)
    /\ IsPrefix(spiHanded, uartAccepted)

\* C3: both directions have passed on bytes of different values, the
\* UART-to-SPI one in two chunks.
C3_Witness ==
    /\ spiHanded = << 1, 2, 3 >>
    /\ uartHanded = << 1, 0, 1 >>

\* C4: overflow drop policy.  A stream never holds more than STREAM_SIZE
\* bytes; a send to a full stream (by the scan, by the receive callback)
\* leaves the stream as it is, and the sender goes on: the scan to its next
\* byte or to the top of the loop, the callback to the rearm.
C4_Bounded ==
    /\ Len(uart_rx_stream) <= STREAM_SIZE
    /\ Len(spi_rx_stream) <= STREAM_SIZE

C4_FullSendDrops ==
    /\ (SpiScan /\ Len(spi_rx_stream) = STREAM_SIZE)
          => /\ spi_rx_stream' = spi_rx_stream
             /\ spiAccepted' = spiAccepted
             /\ (pcS' = "receive" \/ (pcS' = "scan" /\ q' = q + 1))
    /\ (UartRxCompleteCallback /\ Len(uart_rx_stream) = STREAM_SIZE)
          => /\ uart_rx_stream' = uart_rx_stream
             /\ uartAccepted' = uartAccepted
             /\ pcU' = pcU /\ pcS' = pcS

C4_OverflowDrops == [] C4_Bounded /\ [][C4_FullSendDrops]_vars

\* C4: both streams have been full when a byte was sent to them.
C4_Witness == uartDropped /\ spiDropped

\* C5: timeout/abort liveness.  A task that waits for its completion
\* semaphore gets past the wait, by the token or by the timeout and the abort,
\* and reaches the top of its loop again, whatever the peripheral does.
C5_TimeoutLiveness ==
    /\ (pcU = "wait") ~> (pcU = "receive")
    /\ (pcS = "wait") ~> (pcS = "receive")

\* C5: both tasks are past a timeout while their peripheral is still busy with
\* the operation that never completed.
C5_Witness ==
    /\ pcU = "abort" /\ uartTxBusy
    /\ pcS = "abort" /\ spiBusy

\* C6: idle padding and transaction length.  Once a turn has received from
\* uart_rx_stream: after an empty receive the transmit buffer is
\* CHUNK_BUFF_SIZE zeros and the length CHUNK_BUFF_SIZE, otherwise the buffer
\* is the bytes received and the length their number; the length is in
\* 1..CHUNK_BUFF_SIZE and is the length of the transaction the HAL accepts.
C6_Buffer ==
    /\ pcS \in {"wait", "abort", "scan"} =>
          /\ length \in 1..CHUNK_BUFF_SIZE
          /\ Len(chunk_buff_tx) = length
          /\ IF Len(consumed) = 0
               THEN chunk_buff_tx = Zeros(CHUNK_BUFF_SIZE)
                    /\ length = CHUNK_BUFF_SIZE
               ELSE chunk_buff_tx = consumed /\ length = Len(consumed)
    /\ pcS = "wait" => spiXferSize = length
    /\ pcS = "scan" => q < length

\* C6: the scan starts at 0, goes up by one and ends after the byte at
\* length - 1: it covers exactly `length` bytes.
C6_Scan ==
    /\ (pcS # "scan" /\ pcS' = "scan") => q' = 0
    /\ (SpiScan /\ pcS' = "scan") => q' = q + 1
    /\ (SpiScan /\ pcS' # "scan") => q = length - 1

C6_PaddingAndLength == [] C6_Buffer /\ [][C6_Scan]_vars

\* C6: the scan is at the last byte of a padded transaction, after an earlier
\* turn has passed on a chunk of one byte.
C6_Witness ==
    /\ pcS = "scan" /\ q = CHUNK_BUFF_SIZE - 1
    /\ consumed = << >>
    /\ spiHanded = << 1 >>
    /\ spiXfers = 2

\* C7: completion timeout loses the chunk in flight.  In a turn whose
\* spi_wait_ready timed out, the scan stores nothing into spi_rx_stream and
\* leaves message_receiving as it is.
C7_LostChunk ==
    (pcS = "scan" /\ spiStatus # 0)
        => (spiAccepted' = spiAccepted /\ message_receiving' = message_receiving)

C7_TimeoutLosesChunk == [][C7_LostChunk]_vars

\* C8: transient start failure.  When the HAL rejects the transmit or the
\* transaction, the bytes received from the stream in this turn are gone from
\* it, and the task is back at the top of its loop: its semaphore is not
\* acquired and, in spi_task, nothing is scanned, stored into spi_rx_stream or
\* changed in message_receiving.
C8_Rejected ==
    /\ (UartReceive /\ (uartTxBusy \/ ~uartTxBusy'))
          => /\ pcU' = "receive"
             /\ uart_tx_sema' = uart_tx_sema
             /\ Len(spi_rx_stream') = Len(spi_rx_stream) - Len(chunk_buff')
             /\ Len(chunk_buff') > 0
    /\ (SpiReceive /\ spiXfers' = spiXfers)
          => /\ pcS' = "receive"
             /\ spi_tx_rx_sema' = spi_tx_rx_sema
             /\ Len(uart_rx_stream') = Len(uart_rx_stream) - Len(consumed')
             /\ spiAccepted' = spiAccepted
             /\ spi_rx_stream' = spi_rx_stream
             /\ message_receiving' = message_receiving
             /\ q' = q

C8_StartFailureDrops == [][C8_Rejected]_vars

\* C8: spi_task is back at the top of its loop after it passed bytes of
\* uart_rx_stream to a transaction, and the HAL has never accepted one.
C8_Witness ==
    /\ pcS = "receive"
    /\ spiXfers = 0
    /\ Len(spiHanded) = 2
    /\ Len(uart_rx_stream) = 1

\* C9: uart_spi_start returns -1 when a registration, an allocation or a task
\* creation failed, and no task is created then.
C9_StartReportsFailure ==
    (failed # {} /\ startState # "running")
        => /\ startResult = << -1 >>
           /\ "uart_task" \notin created
           /\ "spi_task" \notin created

\* C10: perpetual single-byte receive.  Once uart_task is in its loop,
\* reception is armed whenever no callback is running.
C10_ReceptionArmed == pcU # "rx_start" => uartRxArmed

\* C11: acquire success means the operation ended.  When uart_wait_tx_ready
\* returns 0 (uart_task goes from the wait straight back to the top of its
\* loop), the transmit started in this turn is no longer in flight.
C11_AcquiredEnded == (pcU = "wait" /\ pcU' = "receive") => ~uartTxBusy'

C11_AcquireMeansEnded == [][C11_AcquiredEnded]_vars

\* C12: no overlapping operations.  uart_task calls uart_tx_async, and
\* spi_task calls spi_tx_rx, only when no operation it started earlier is
\* still in flight.
C12_CallsWhenIdle ==
    /\ UartReceive => ~uartTxBusy
    /\ SpiReceive => ~spiBusy

C12_NoOverlap == [][C12_CallsWhenIdle]_vars

\* C13: the completion signal is a binary latch.  Both semaphores start
\* available and their counts stay in 0..1; every completion or error callback
\* leaves the count of its semaphore at 1, whether it was 0 or 1 before, and
\* leaves the other semaphore alone.
C13_Release ==
    /\ (UartTxCompleteCallback \/ UartErrorCallback)
          => (uart_tx_sema' = 1 /\ spi_tx_rx_sema' = spi_tx_rx_sema)
    /\ (SpiTxRxCompleteCallback \/ SpiErrorCallback)
          => (spi_tx_rx_sema' = 1 /\ uart_tx_sema' = uart_tx_sema)

C13_BinaryLatch ==
    /\ uart_tx_sema = 1 /\ spi_tx_rx_sema = 1
    /\ [](uart_tx_sema \in {0, 1} /\ spi_tx_rx_sema \in {0, 1})
    /\ [][C13_Release]_vars

\* C13: uart_task is at its first acquire and spi_task at its second, and
\* callbacks have ended every operation started so far: one release of each
\* semaphore found it available.
C13_Witness ==
    /\ pcS = "wait" /\ spiXfers = 2 /\ ~spiBusy /\ spi_tx_rx_sema = 1
    /\ pcU = "wait" /\ Len(uartHanded) = 1 /\ ~uartTxBusy /\ uart_tx_sema = 1

\* C14: abort only after a completion timeout.  A task gets to its abort call
\* only from its wait, by an acquire that found no token; the abort call is
\* the task's next step, and only that step aborts.
C14_AbortSteps ==
    /\ (pcU' = "abort" /\ pcU # "abort")
          => (UartWaitTxReady /\ ~SemaAvailable(uart_tx_sema))
    /\ (pcS' = "abort" /\ pcS # "abort")
          => (SpiWaitReady /\ ~SemaAvailable(spi_tx_rx_sema) /\ spiStatus' # 0)
    /\ (pcU = "abort" /\ pcU' # "abort") => UartTxAbort
    /\ (pcS = "abort" /\ pcS' # "abort") => SpiAbort
    /\ UartTxAbort => pcU = "abort"
    /\ SpiAbort => pcS = "abort"

C14_AbortOnlyAfterTimeout ==
    [](pcS = "abort" => spiStatus # 0) /\ [][C14_AbortSteps]_vars

\* C14: both tasks are at their abort call, after an acquire that timed out.
C14_Witness ==
    /\ pcU = "abort" /\ uart_tx_sema = 0
    /\ pcS = "abort" /\ spi_tx_rx_sema = 0 /\ spiStatus = -1

\* C15: ownership discipline.  uart_rx_stream is sent to only by
\* uart_rx_complete_callback and received from only by spi_task;
\* spi_rx_stream is sent to only by spi_task and received from only by
\* uart_task; each semaphore is acquired only by its task and released only
\* by the callbacks of its peripheral.
C15_Owners ==
    /\ Len(uart_rx_stream') > Len(uart_rx_stream) => UartRxCompleteCallback
    /\ Len(uart_rx_stream') < Len(uart_rx_stream) => SpiReceive
    /\ Len(spi_rx_stream') > Len(spi_rx_stream) => SpiScan
    /\ Len(spi_rx_stream') < Len(spi_rx_stream) => UartReceive
    /\ uart_rx_stream' # uart_rx_stream
          => (UartRxCompleteCallback \/ SpiReceive)
    /\ spi_rx_stream' # spi_rx_stream => (SpiScan \/ UartReceive)
    /\ uart_tx_sema' < uart_tx_sema => UartWaitTxReady
    /\ uart_tx_sema' > uart_tx_sema
          => (UartTxCompleteCallback \/ UartErrorCallback)
    /\ spi_tx_rx_sema' < spi_tx_rx_sema => SpiWaitReady
    /\ spi_tx_rx_sema' > spi_tx_rx_sema
          => (SpiTxRxCompleteCallback \/ SpiErrorCallback)

C15_Ownership == [][C15_Owners]_vars

\* C15: both streams have been sent to and received from, both semaphores
\* acquired, released and acquired again.
C15_Witness ==
    /\ Len(spiHanded) > 0 /\ Len(uartHanded) > CHUNK_BUFF_SIZE
    /\ spiXfers = 2 /\ pcS = "scan" /\ spiStatus = 0 /\ spi_tx_rx_sema = 0
    /\ pcU = "receive" /\ uart_tx_sema = 0

\* C16: no buffer race with the peripheral.  chunk_buff is not written while
\* a transmit from it is in flight, chunk_buff_tx is not refilled and
\* chunk_buff_rx is not scanned while a transaction using them is in flight.
C16_BuffersUntouched ==
    /\ chunk_buff' # chunk_buff => ~uartTxBusy
    /\ chunk_buff_tx' # chunk_buff_tx => ~spiBusy
    /\ SpiScan => ~spiBusy

C16_NoBufferRace == [][C16_BuffersUntouched]_vars

\* C17: well-formed output stream.  The bytes stored into spi_rx_stream over
\* time do not begin with a zero and never hold two zeros in a row; stated
\* here for the runs in which every scan read a completed transaction, sends
\* to a full spi_rx_stream included.
C17_WellFormedOutput ==
    cleanScans =>
        /\ spiAccepted # << >> => spiAccepted[1] # 0
        /\ \A i \in 1..(Len(spiAccepted) - 1) :
              ~(spiAccepted[i] = 0 /\ spiAccepted[i + 1] = 0)

\* C18: initialization ordering.  Once uart_spi_start has created a task, both
\* streams and both semaphores exist.
C18_CreatedBeforeTasks ==
    (created \cap {"uart_task", "spi_task"} # {})
        => {"uart_rx_stream", "spi_rx_stream", "uart_tx_sema",
            "spi_tx_rx_sema"} \subseteq created

\* C19: channels always drain.  With both tasks scheduled fairly and nothing
\* assumed of the peripherals, whenever spi_rx_stream holds bytes uart_task
\* has not received, a state follows in which uart_task has received every
\* byte stored so far; the same for uart_rx_stream and spi_task.
C19_ChannelsDrain ==
    /\ (Len(uartHanded) < Len(spiAccepted)) ~> (uartHanded = spiAccepted)
    /\ (Len(spiHanded) < Len(uartAccepted)) ~> (spiHanded = uartAccepted)

\* C19: both streams are empty again after every transaction the HAL was
\* ready to accept, with a transmit rejected or abandoned on the way.
C19_Witness ==
    /\ Len(uartHanded) = CHUNK_BUFF_SIZE * MaxSpiXfer
    /\ uartHanded = spiAccepted
    /\ spiHanded = uartAccepted /\ Len(spiHanded) = MaxUartRx
    /\ pcU = "receive" /\ pcS = "receive"

\* C20: framing flag invariant.  message_receiving is false before the first
\* scan; after the scan of a byte it is true exactly when that byte was not
\* zero, whether or not spi_rx_stream took the byte.
C20_FlagAfterScan == SpiScan => (message_receiving' = (chunk_buff_rx[q + 1] # 0))

C20_FramingFlag ==
    [](spiXfers = 0 => ~message_receiving) /\ [][C20_FlagAfterScan]_vars

\* C20: the scan has ended on a non-zero byte that the full spi_rx_stream did
\* not take, and the flag is set.
C20_Witness ==
    /\ pcS = "receive" /\ message_receiving
    /\ spiDropped /\ Len(spi_rx_stream) = STREAM_SIZE
    /\ spiAccepted = << 1, 1, 1 >>

====
